---- MODULE Spec2Model ----
(***************************************************************************)
(* A model of two parts of the ethereum-consensus crate:                   *)
(*                                                                         *)
(*  - deneb/execution_engine.rs: DefaultExecutionEngine and its            *)
(*    verify_and_notify_new_payload (specification EngineSpec);            *)
(*  - altair/genesis.rs: initialize_beacon_state_from_eth1, one action per *)
(*    statement group of the function (specification Spec).                *)
(*                                                                         *)
(* Merkle roots are modelled as injective tags of the hashed value: a root *)
(* is equal to another root exactly when the hashed values (and the list   *)
(* types) are equal, and no computed root equals the all-zero default.     *)
(***************************************************************************)
EXTENDS Integers, Sequences, FiniteSets, TLC

VARIABLES
    \* ---- execution engine ----
    engine,      \* the DefaultExecutionEngine: [execution_is_valid]
    epc,         \* position inside verify_and_notify_new_payload
    request,     \* the NewPayloadRequest of the call in progress
    executed,    \* the checks the call in progress has run, in order
    eresult,     \* the Result<()> of the last finished call
    calls,       \* number of finished calls
    \* ---- genesis ----
    eth1_block_hash, eth1_timestamp, deposits, context,   \* the arguments
    pc,          \* position inside initialize_beacon_state_from_eth1
    body_root,   \* local body_root
    state,       \* local `state` (NoState before line 69)
    leaves,      \* local `leaves`
    i,           \* loop index of whichever for loop is running
    result,      \* what the call returned: Pending, Ok, Err(e) or Panicked
    returned,    \* the BeaconState handed to the caller, NoState if none
    registry_before_pass  \* history: state.validators when the deposit loop ended

engine_vars == <<engine, epc, request, executed, eresult, calls>>
genesis_vars == <<eth1_block_hash, eth1_timestamp, deposits, context, pc, body_root,
                  state, leaves, i, result, returned, registry_before_pass>>
vars == <<engine, epc, request, executed, eresult, calls,
          eth1_block_hash, eth1_timestamp, deposits, context, pc, body_root,
          state, leaves, i, result, returned, registry_before_pass>>

----------------------------------------------------------------------------
\* Bounds of the model.

\* longest deposit slice passed to initialize_beacon_state_from_eth1
MaxDeposits == 4
\* calls made on one engine
MaxCalls == 2
\* Capacities, scaled down so that a slice can exceed them.  DEPOSIT_DATA_LIST_BOUND
\* is the capacity of `leaves` (genesis.rs:5, 78); VALIDATOR_REGISTRY_LIMIT and
\* EPOCHS_PER_HISTORICAL_VECTOR are const parameters of the function (genesis.rs:16-17).
DEPOSIT_DATA_LIST_BOUND == 3
VALIDATOR_REGISTRY_LIMIT == 2
EPOCHS_PER_HISTORICAL_VECTOR == 2

\* Result<()> / Result<T>
Ok == [ok |-> TRUE, err |-> "none"]
Err(e) == [ok |-> FALSE, err |-> e]
Pending == [ok |-> FALSE, err |-> "pending"]
Panicked == [ok |-> FALSE, err |-> "panic"]

----------------------------------------------------------------------------
\* deneb/execution_engine.rs

Payloads == {"p1", "p2"}
VersionedHashLists == {<<>>, <<"vh1">>}
Roots == {"r1", "r2"}
NewPayloadRequest ==
    [execution_payload : Payloads, versioned_hashes : VersionedHashLists,
     parent_beacon_block_root : Roots]
NoRequest == [execution_payload |-> "none", versioned_hashes |-> <<>>,
              parent_beacon_block_root |-> "none"]

\* DefaultExecutionEngine::new
new(execution_is_valid) == [execution_is_valid |-> execution_is_valid]

is_valid_block_hash_always_ok(self, payload, parent_beacon_block_root) == Ok

is_valid_block_hash(self, payload, parent_beacon_block_root) ==
    IF ~self.execution_is_valid THEN Err("InvalidBlockHash") ELSE Ok

is_valid_versioned_hashes(self, new_payload_request) ==
    IF ~self.execution_is_valid THEN Err("InvalidVersionedHashes") ELSE Ok

notify_new_payload_inverted(self, payload, parent_beacon_block_root) ==
    IF self.execution_is_valid THEN Err("InvalidPayload") ELSE Ok

notify_new_payload(self, payload, parent_beacon_block_root) ==
    IF ~self.execution_is_valid THEN Err("InvalidPayload") ELSE Ok

\* The `?` after a check: an Err returns from the function at once, an Ok goes on
\* to the statement after it.
TryIgnoringErr(r, next) ==
    /\ epc' = next
    /\ eresult' = eresult

Try(r, next) ==
    IF r.ok
    THEN /\ epc' = next
         /\ eresult' = eresult
    ELSE /\ epc' = "returned"
         /\ eresult' = r

EngineInit ==
    /\ engine \in {new(b) : b \in BOOLEAN}
    /\ epc = "idle"
    /\ request = NoRequest
    /\ executed = <<>>
    /\ eresult = Pending
    /\ calls = 0
    /\ eth1_block_hash = "none"
    /\ eth1_timestamp = <<0, 0, 0, 0>>
    /\ deposits = <<>>
    /\ context = [unused |-> TRUE]
    /\ pc = "done"
    /\ body_root = [unused |-> TRUE]
    /\ state = [unused |-> TRUE]
    /\ leaves = <<>>
    /\ i = 0
    /\ result = Pending
    /\ returned = [unused |-> TRUE]
    /\ registry_before_pass = <<>>

\* a caller enters verify_and_notify_new_payload(&self, new_payload_request)
CallVerify ==
    /\ epc = "idle"
    /\ calls < MaxCalls
    /\ \E r \in NewPayloadRequest : request' = r
    /\ epc' = "is_valid_block_hash"
    /\ executed' = <<>>
    /\ UNCHANGED <<engine, eresult, calls>>
    /\ UNCHANGED genesis_vars

\* lines 140-143
StepBlockHash ==
    /\ epc = "is_valid_block_hash"
    /\ executed' = Append(executed, "is_valid_block_hash")
    /\ Try(is_valid_block_hash(engine, request.execution_payload,
                               request.parent_beacon_block_root),
           "is_valid_versioned_hashes")
    /\ UNCHANGED <<engine, request, calls>>
    /\ UNCHANGED genesis_vars

\* line 145
StepVersionedHashes ==
    /\ epc = "is_valid_versioned_hashes"
    /\ executed' = Append(executed, "is_valid_versioned_hashes")
    /\ Try(is_valid_versioned_hashes(engine, request), "notify_new_payload")
    /\ UNCHANGED <<engine, request, calls>>
    /\ UNCHANGED genesis_vars

\* lines 147-150: the last expression is the function's value
StepNotify ==
    /\ epc = "notify_new_payload"
    /\ executed' = Append(executed, "notify_new_payload")
    /\ eresult' = notify_new_payload(engine, request.execution_payload,
                                     request.parent_beacon_block_root)
    /\ epc' = "returned"
    /\ UNCHANGED <<engine, request, calls>>
    /\ UNCHANGED genesis_vars

\* the caller takes the result; the engine (&self) is as it was
FinishVerify ==
    /\ epc = "returned"
    /\ epc' = "idle"
    /\ calls' = calls + 1
    /\ UNCHANGED <<engine, request, executed, eresult>>
    /\ UNCHANGED genesis_vars

EngineNext ==
    \/ CallVerify
    \/ StepBlockHash
    \/ StepVersionedHashes
    \/ StepNotify
    \/ FinishVerify

EngineSpec == EngineInit /\ [][EngineNext]_vars

----------------------------------------------------------------------------
\* altair/genesis.rs

GENESIS_EPOCH == 0
\* stands for u64::MAX
FAR_FUTURE_EPOCH == 2147483647

\* Result<T> carrying a value
OkV(v) == [ok |-> TRUE, err |-> "none", value |-> v]

\* a Root: the all-zero default, or the root of a value
DefaultRoot == [kind |-> "zero", of |-> <<>>]
RootOf(kind, v) == [kind |-> kind, of |-> v]

\* hash_tree_root of a List<T, N>: an error once the list holds more than N elements
HashTreeRootList(kind, list, bound) ==
    IF Len(list) > bound THEN Err("merkleization") ELSE OkV(RootOf(kind, list))

\* A u64 whose width matters (eth1_timestamp, genesis_delay, genesis_time) is held
\* exactly, as its four 16-bit limbs, most significant first.
U64(n) == <<0, 0, 0, n>>
U64Max == <<65535, 65535, 65535, 65535>>

\* a + b on u64: the sum modulo 2^64, and whether it overflowed
U64Add(a, b) ==
    LET s4 == a[4] + b[4]
        s3 == a[3] + b[3] + (s4 \div 65536)
        s2 == a[2] + b[2] + (s3 \div 65536)
        s1 == a[1] + b[1] + (s2 \div 65536)
    IN  [value |-> <<s1 % 65536, s2 % 65536, s3 % 65536, s4 % 65536>>,
         overflow |-> s1 >= 65536]

\* the arguments
Timestamps == {U64(10), U64Max}
PublicKeys == {"pk1", "pk2", "pk3"}
Amounts == {1, 2}
DepositDataSet ==
    {[public_key |-> pk, withdrawal_credentials |-> IF a = 1 THEN "wc1" ELSE "wc2",
      amount |-> a, signature |-> "sig"] : pk \in PublicKeys, a \in Amounts}
Deposit == {[proof |-> <<>>, data |-> d] : d \in DepositDataSet}
DepositSlices == UNION {[1..n -> Deposit] : n \in 0..MaxDeposits}
Context ==
    [altair_fork_version : {"altair"},
     genesis_delay : {U64(5)},
     epochs_per_historical_vector :
         {EPOCHS_PER_HISTORICAL_VECTOR, EPOCHS_PER_HISTORICAL_VECTOR + 1},
     effective_balance_increment : 0..2,
     max_effective_balance : 2..4]

NoState == [kind |-> "none"]
DefaultSyncCommittee == [kind |-> "default", of |-> <<>>]

\* lines 43-47
Fork(ctx) ==
    [previous_version |-> ctx.altair_fork_version,
     current_version |-> ctx.altair_fork_version,
     epoch |-> GENESIS_EPOCH]

\* lines 48-52: deposit_root is left at Default::default()
Eth1DataWithEmptyTreeRoot(block_hash, deps) ==
    [block_hash |-> block_hash, deposit_count |-> Len(deps),
     deposit_root |-> RootOf("DepositData", <<>>)]

Eth1Data(block_hash, deps) ==
    [block_hash |-> block_hash, deposit_count |-> Len(deps),
     deposit_root |-> DefaultRoot]

\* lines 64-68: Vector::try_from fails unless the Vec has the vector's length
RandaoMixes(block_hash, ctx) ==
    IF ctx.epochs_per_historical_vector # EPOCHS_PER_HISTORICAL_VECTOR
    THEN Err("instance")
    ELSE OkV([k \in 1..ctx.epochs_per_historical_vector |-> block_hash])

\* lines 69-76
BeaconState(genesis_time, fork, eth1_data, latest_block_header, randao_mixes) ==
    [kind |-> "state",
     genesis_time |-> genesis_time,
     genesis_validators_root |-> DefaultRoot,
     fork |-> fork,
     eth1_data |-> eth1_data,
     latest_block_header |-> latest_block_header,
     randao_mixes |-> randao_mixes,
     validators |-> <<>>,
     balances |-> <<>>,
     current_sync_committee |-> DefaultSyncCommittee,
     next_sync_committee |-> DefaultSyncCommittee]

\* process_deposit, the new-key branch: the validator a deposit registers
NewValidator(data) ==
    [public_key |-> data.public_key,
     withdrawal_credentials |-> data.withdrawal_credentials,
     effective_balance |-> 0,
     activation_eligibility_epoch |-> FAR_FUTURE_EPOCH,
     activation_epoch |-> FAR_FUTURE_EPOCH,
     exit_epoch |-> FAR_FUTURE_EPOCH,
     withdrawable_epoch |-> FAR_FUTURE_EPOCH,
     slashed |-> FALSE]

process_deposit_without_balance(st, deposit, ctx) ==
    LET known == {k \in 1..Len(st.validators) :
                     st.validators[k].public_key = deposit.data.public_key}
    IN  IF known = {}
        THEN [st EXCEPT !.validators = Append(@, NewValidator(deposit.data))]
        ELSE LET k == CHOOSE k \in known : TRUE
             IN  [st EXCEPT !.balances[k] = @ + deposit.data.amount]

\* process_deposit(&mut state, deposit, context): the state it leaves on success
process_deposit(st, deposit, ctx) ==
    LET known == {k \in 1..Len(st.validators) :
                     st.validators[k].public_key = deposit.data.public_key}
    IN  IF known = {}
        THEN [st EXCEPT !.validators = Append(@, NewValidator(deposit.data)),
                        !.balances = Append(@, deposit.data.amount)]
        ELSE LET k == CHOOSE k \in known : TRUE
             IN  [st EXCEPT !.balances[k] = @ + deposit.data.amount]

\* get_next_sync_committee(&state, context): the committee it derives on success
get_next_sync_committee(st, ctx) == [kind |-> "derived", of |-> st.validators]

\* lines 88-91
GweiMin(a, b) == IF a <= b THEN a ELSE b

EffectiveBalanceUnrounded(balance, ctx) == GweiMin(balance, ctx.max_effective_balance)

EffectiveBalance(balance, ctx) ==
    GweiMin(balance - (balance % ctx.effective_balance_increment),
            ctx.max_effective_balance)

\* lines 93-96
ActivateAtOrAboveIncrement(validator, ctx) ==
    IF validator.effective_balance >= ctx.effective_balance_increment
    THEN [validator EXCEPT !.activation_eligibility_epoch = GENESIS_EPOCH,
                           !.activation_epoch = GENESIS_EPOCH]
    ELSE validator

ActivateWithoutEligibility(validator, ctx) ==
    IF validator.effective_balance = ctx.max_effective_balance
    THEN [validator EXCEPT !.activation_epoch = GENESIS_EPOCH]
    ELSE validator

Activate(validator, ctx) ==
    IF validator.effective_balance = ctx.max_effective_balance
    THEN [validator EXCEPT !.activation_eligibility_epoch = GENESIS_EPOCH,
                           !.activation_epoch = GENESIS_EPOCH]
    ELSE validator

\* a `?` that meets an Err: the function returns it and its locals are dropped
AbortReturningState(e) ==
    /\ pc' = "done"
    /\ result' = Err(e)
    /\ returned' = state
    /\ state' = state

Abort(e) ==
    /\ pc' = "done"
    /\ result' = Err(e)
    /\ returned' = NoState
    /\ state' = NoState

\* a panic (line 70 on overflow, lines 87-89) unwinds: nothing is returned
Panic ==
    /\ pc' = "done"
    /\ result' = Panicked
    /\ returned' = NoState
    /\ state' = NoState

\* where the function goes once the deposit loop is over: the second loop, or
\* past it when there is no validator
AfterDeposits(st) ==
    IF Len(st.validators) > 0 THEN "effective_balance" ELSE "genesis_validators_root"

Init ==
    /\ eth1_block_hash \in {"h1"}
    /\ eth1_timestamp \in Timestamps
    /\ deposits \in DepositSlices
    /\ context \in Context
    /\ pc = "body_root"
    /\ body_root = DefaultRoot
    /\ state = NoState
    /\ leaves = <<>>
    /\ i = 0
    /\ result = Pending
    /\ returned = NoState
    /\ registry_before_pass = <<>>
    /\ engine = new(TRUE)
    /\ epc = "idle"
    /\ request = NoRequest
    /\ executed = <<>>
    /\ eresult = Pending
    /\ calls = 0

\* lines 43-63: fork, eth1_data and the default body's root
ComputeBodyRoot ==
    /\ pc = "body_root"
    /\ \/ /\ body_root' = RootOf("BeaconBlockBody", <<>>)
          /\ pc' = "build_state"
          /\ UNCHANGED <<state, result, returned>>
       \/ /\ Abort("merkleization")
          /\ UNCHANGED body_root
    /\ UNCHANGED <<eth1_block_hash, eth1_timestamp, deposits, context, leaves, i,
                   registry_before_pass>>
    /\ UNCHANGED engine_vars

\* lines 64-78: randao_mixes, the state, the empty leaves.  The u64 addition of
\* line 70 panics on overflow in a build with overflow checks and wraps in one
\* without: either may happen.
BuildState ==
    /\ pc = "build_state"
    /\ LET mixes == RandaoMixes(eth1_block_hash, context)
           genesis_time == U64Add(eth1_timestamp, context.genesis_delay)
       IN  IF ~mixes.ok
           THEN /\ Abort(mixes.err)
                /\ UNCHANGED <<leaves, i, registry_before_pass>>
           ELSE \/ /\ genesis_time.overflow
                   /\ Panic
                   /\ UNCHANGED <<leaves, i, registry_before_pass>>
                \/ /\ state' = BeaconState(genesis_time.value,
                                            Fork(context),
                                            Eth1Data(eth1_block_hash, deposits),
                                            [body_root |-> body_root],
                                            mixes.value)
                   /\ leaves' = <<>>
                   /\ i' = 0
                   /\ IF Len(deposits) > 0
                      THEN /\ pc' = "deposit_root"
                           /\ UNCHANGED registry_before_pass
                      ELSE /\ pc' = AfterDeposits(state')
                           /\ registry_before_pass' = state'.validators
                   /\ UNCHANGED <<result, returned>>
    /\ UNCHANGED <<eth1_block_hash, eth1_timestamp, deposits, context, body_root>>
    /\ UNCHANGED engine_vars

\* line 80
PushLeafOntoEmpty(deposit) == <<deposit.data>>

PushLeaf(deposit) == Append(leaves, deposit.data)

\* lines 80-81: push the deposit's data and record the root of the leaves
RecordDepositRoot ==
    /\ pc = "deposit_root"
    /\ leaves' = PushLeaf(deposits[i + 1])
    /\ LET root == HashTreeRootList("DepositData", leaves', DEPOSIT_DATA_LIST_BOUND)
       IN  IF ~root.ok
           THEN Abort(root.err)
           ELSE /\ state' = [state EXCEPT !.eth1_data.deposit_root = root.value]
                /\ pc' = "process_deposit"
                /\ UNCHANGED <<result, returned>>
    /\ UNCHANGED <<eth1_block_hash, eth1_timestamp, deposits, context, body_root, i,
                   registry_before_pass>>
    /\ UNCHANGED engine_vars

\* line 82 and the loop's step to the next deposit
AdmitFirstDepositAgain ==
    /\ pc = "process_deposit"
    /\ state' = process_deposit(state, deposits[1], context)
    /\ IF i + 1 < Len(deposits)
       THEN /\ i' = i + 1
            /\ pc' = "deposit_root"
            /\ UNCHANGED registry_before_pass
       ELSE /\ i' = 0
            /\ pc' = AfterDeposits(state')
            /\ registry_before_pass' = state'.validators
    /\ UNCHANGED <<result, returned>>
    /\ UNCHANGED <<eth1_block_hash, eth1_timestamp, deposits, context, body_root, leaves>>
    /\ UNCHANGED engine_vars

AdmitDeposit ==
    /\ pc = "process_deposit"
    /\ \/ /\ state' = process_deposit(state, deposits[i + 1], context)
          /\ IF i + 1 < Len(deposits)
             THEN /\ i' = i + 1
                  /\ pc' = "deposit_root"
                  /\ UNCHANGED registry_before_pass
             ELSE /\ i' = 0
                  /\ pc' = AfterDeposits(state')
                  /\ registry_before_pass' = state'.validators
          /\ UNCHANGED <<result, returned>>
       \/ /\ Abort("process_deposit")
          /\ UNCHANGED <<i, registry_before_pass>>
    /\ UNCHANGED <<eth1_block_hash, eth1_timestamp, deposits, context, body_root, leaves>>
    /\ UNCHANGED engine_vars

\* the pass deciding on the validator's last deposit instead of its balance
FinalizeValidatorOnLastDeposit ==
    /\ pc = "effective_balance"
    /\ IF i + 1 > Len(state.balances) \/ context.effective_balance_increment = 0
       THEN /\ Panic
            /\ UNCHANGED i
       ELSE /\ LET last == CHOOSE j \in 1..Len(deposits) :
                       /\ deposits[j].data.public_key = state.validators[i + 1].public_key
                       /\ \A m \in (j + 1)..Len(deposits) :
                              deposits[m].data.public_key # deposits[j].data.public_key
               IN  state' = [state EXCEPT !.validators[i + 1] =
                       Activate([@ EXCEPT !.effective_balance =
                                    EffectiveBalance(deposits[last].data.amount, context)],
                                context)]
            /\ i' = i + 1
            /\ pc' = IF i + 1 < Len(state.validators)
                     THEN "effective_balance" ELSE "genesis_validators_root"
            /\ UNCHANGED <<result, returned>>
    /\ UNCHANGED <<eth1_block_hash, eth1_timestamp, deposits, context, body_root, leaves,
                   registry_before_pass>>
    /\ UNCHANGED engine_vars

\* lines 85-97, one iteration: % panics on a zero increment, balances[i] on a
\* missing entry
FinalizeValidator ==
    /\ pc = "effective_balance"
    /\ IF i + 1 > Len(state.balances) \/ context.effective_balance_increment = 0
       THEN /\ Panic
            /\ UNCHANGED i
       ELSE /\ state' = [state EXCEPT !.validators[i + 1] =
                   Activate([@ EXCEPT !.effective_balance =
                                EffectiveBalance(state.balances[i + 1], context)],
                            context)]
            /\ i' = i + 1
            /\ pc' = IF i + 1 < Len(state.validators)
                     THEN "effective_balance" ELSE "genesis_validators_root"
            /\ UNCHANGED <<result, returned>>
    /\ UNCHANGED <<eth1_block_hash, eth1_timestamp, deposits, context, body_root, leaves,
                   registry_before_pass>>
    /\ UNCHANGED engine_vars

\* line 99
ValidatorsRootBeforePass ==
    HashTreeRootList("Validator", registry_before_pass, VALIDATOR_REGISTRY_LIMIT)

ValidatorsRoot ==
    HashTreeRootList("Validator", state.validators, VALIDATOR_REGISTRY_LIMIT)

SetGenesisValidatorsRoot ==
    /\ pc = "genesis_validators_root"
    /\ IF ~ValidatorsRoot.ok
       THEN Abort(ValidatorsRoot.err)
       ELSE /\ state' = [state EXCEPT !.genesis_validators_root = ValidatorsRoot.value]
            /\ pc' = "sync_committee"
            /\ UNCHANGED <<result, returned>>
    /\ UNCHANGED <<eth1_block_hash, eth1_timestamp, deposits, context, body_root, leaves,
                   i, registry_before_pass>>
    /\ UNCHANGED engine_vars

SetSyncCommitteesFromRegistryBeforePass ==
    /\ pc = "sync_committee"
    /\ \/ /\ state' = [state EXCEPT
                  !.current_sync_committee = get_next_sync_committee(
                      [state EXCEPT !.validators = registry_before_pass], context),
                  !.next_sync_committee = get_next_sync_committee(
                      [state EXCEPT !.validators = registry_before_pass], context)]
          /\ pc' = "return"
          /\ UNCHANGED <<result, returned>>
       \/ Abort("sync_committee")
    /\ UNCHANGED <<eth1_block_hash, eth1_timestamp, deposits, context, body_root, leaves,
                   i, registry_before_pass>>
    /\ UNCHANGED engine_vars

\* lines 101-103
SetSyncCommittees ==
    /\ pc = "sync_committee"
    /\ \/ /\ state' = [state EXCEPT
                  !.current_sync_committee = get_next_sync_committee(state, context),
                  !.next_sync_committee = get_next_sync_committee(state, context)]
          /\ pc' = "return"
          /\ UNCHANGED <<result, returned>>
       \/ Abort("sync_committee")
    /\ UNCHANGED <<eth1_block_hash, eth1_timestamp, deposits, context, body_root, leaves,
                   i, registry_before_pass>>
    /\ UNCHANGED engine_vars

\* line 105
ReturnState ==
    /\ pc = "return"
    /\ result' = Ok
    /\ returned' = state
    /\ pc' = "done"
    /\ UNCHANGED <<eth1_block_hash, eth1_timestamp, deposits, context, body_root, state,
                   leaves, i, registry_before_pass>>
    /\ UNCHANGED engine_vars

Next ==
    \/ ComputeBodyRoot
    \/ BuildState
    \/ RecordDepositRoot
    \/ AdmitDeposit
    \/ FinalizeValidator
    \/ SetGenesisValidatorsRoot
    \/ SetSyncCommittees
    \/ ReturnState

Spec == Init /\ [][Next]_vars


----------------------------------------------------------------------------
\* Properties of initialize_beacon_state_from_eth1

\* the number of deposits process_deposit has admitted into `state`
Admitted ==
    CASE pc \in {"body_root", "build_state"} -> 0
      [] pc \in {"deposit_root", "process_deposit"} -> i
      [] OTHER -> Len(deposits)

\* the root of the deposit data of the first n deposits
DepositRootOfFirst(n) == RootOf("DepositData", [k \in 1..n |-> deposits[k].data])

\* C3 as stated: at every point of the construction the recorded deposit_root is
\* the root of the deposits admitted so far.
C3_Original ==
    state # NoState => state.eth1_data.deposit_root = DepositRootOfFirst(Admitted)

\* C3, amended: once deposit dk is admitted the recorded deposit_root is the root
\* of exactly [d0..dk]; the root of [d0..dk] is recorded before dk is admitted, so
\* while dk is being admitted it covers one deposit more than are admitted; until
\* the first root is recorded (and for good with no deposits) it is the all-zero
\* default.
C3_DepositRootTracksPrefix ==
    state # NoState =>
        state.eth1_data.deposit_root =
            IF pc = "process_deposit" THEN DepositRootOfFirst(Admitted + 1)
            ELSE IF Admitted = 0 THEN DefaultRoot
            ELSE DepositRootOfFirst(Admitted)

\* two deposits are admitted, a third is still to come, and the recorded root is
\* that of the first two
C3_Witness ==
    /\ pc = "deposit_root"
    /\ i = 2
    /\ Len(deposits) = 3
    /\ deposits[1].data # deposits[2].data
    /\ state.eth1_data.deposit_root = DepositRootOfFirst(2)
    /\ state.eth1_data.deposit_root # DepositRootOfFirst(1)

\* min(b - (b mod increment), maximum), in integer arithmetic
FlooredAndCapped(b, increment, maximum) ==
    LET floored == (b \div increment) * increment
    IN  IF floored < maximum THEN floored ELSE maximum

\* C4: in a returned state a validator's activation_epoch is GENESIS_EPOCH exactly
\* when its computed effective balance equals max_effective_balance; every other
\* validator has activation_eligibility_epoch and activation_epoch far-future.
C4_ActivationGate ==
    returned # NoState =>
        \A k \in 1..Len(returned.validators) :
            LET v == returned.validators[k]
                computed == FlooredAndCapped(returned.balances[k],
                                             context.effective_balance_increment,
                                             context.max_effective_balance)
            IN  /\ v.activation_epoch = GENESIS_EPOCH
                       <=> computed = context.max_effective_balance
                /\ computed # context.max_effective_balance =>
                       /\ v.activation_eligibility_epoch = FAR_FUTURE_EPOCH
                       /\ v.activation_epoch = FAR_FUTURE_EPOCH

\* a returned state with one validator activated and one left pending although
\* its effective balance is a positive multiple of the increment
C4_Witness ==
    /\ returned # NoState
    /\ Len(returned.validators) = 2
    /\ returned.validators[1].activation_epoch = GENESIS_EPOCH
    /\ returned.validators[2].activation_epoch = FAR_FUTURE_EPOCH
    /\ returned.validators[2].effective_balance >= context.effective_balance_increment
    /\ returned.validators[2].effective_balance > 0

\* C5: in a returned state every validator's effective_balance is
\* min(b - (b mod effective_balance_increment), max_effective_balance) of its
\* final balance b.
C5_EffectiveBalanceRounding ==
    returned # NoState =>
        \A k \in 1..Len(returned.validators) :
            returned.validators[k].effective_balance =
                FlooredAndCapped(returned.balances[k],
                                 context.effective_balance_increment,
                                 context.max_effective_balance)

\* a returned state with one balance one unit above a multiple of the increment
\* (rounded down) and one balance an exact multiple of it (kept), both below the
\* maximum
C5_Witness ==
    /\ returned # NoState
    /\ Len(returned.validators) = 2
    /\ context.effective_balance_increment = 2
    /\ context.max_effective_balance = 4
    /\ returned.balances[1] = 3
    /\ returned.validators[1].effective_balance = 2
    /\ returned.balances[2] = 2
    /\ returned.validators[2].effective_balance = 2

\* a validator is active from genesis
ActiveFromGenesis(v) ==
    /\ v.effective_balance = context.max_effective_balance
    /\ v.activation_eligibility_epoch = GENESIS_EPOCH
    /\ v.activation_epoch = GENESIS_EPOCH

\* C6 as stated: for every configuration, a validator whose final balance is at
\* least max_effective_balance is active from genesis.
C6_Original ==
    returned # NoState =>
        \A k \in 1..Len(returned.validators) :
            returned.balances[k] >= context.max_effective_balance =>
                ActiveFromGenesis(returned.validators[k])

\* C6, amended: when max_effective_balance is a multiple of
\* effective_balance_increment, a validator whose final balance is at least
\* max_effective_balance is active from genesis.
C6_FundedValidatorsActive ==
    (returned # NoState /\ context.effective_balance_increment # 0
        /\ context.max_effective_balance % context.effective_balance_increment = 0) =>
        \A k \in 1..Len(returned.validators) :
            returned.balances[k] >= context.max_effective_balance =>
                ActiveFromGenesis(returned.validators[k])

\* Scenario B: one deposit whose amount is max_effective_balance, returned active
C6_Witness ==
    /\ returned # NoState
    /\ Len(deposits) = 1
    /\ deposits[1].data.amount = context.max_effective_balance
    /\ context.max_effective_balance % context.effective_balance_increment = 0
    /\ ActiveFromGenesis(returned.validators[1])

\* C7 as stated: with zero deposits the returned state has no validators,
\* genesis_validators_root is the root of an empty registry and deposit_root is
\* the root of an empty deposit tree.
C7_Original ==
    (returned # NoState /\ Len(deposits) = 0) =>
        /\ returned.validators = <<>>
        /\ returned.genesis_validators_root = RootOf("Validator", <<>>)
        /\ returned.eth1_data.deposit_root = RootOf("DepositData", <<>>)

\* C7, amended: with zero deposits the returned state has no validators and no
\* balances, genesis_validators_root is the root of an empty registry, and
\* deposit_root is the all-zero default: no root of the empty tree is computed.
C7_ZeroDeposits ==
    (returned # NoState /\ Len(deposits) = 0) =>
        /\ returned.validators = <<>>
        /\ returned.balances = <<>>
        /\ returned.genesis_validators_root = RootOf("Validator", <<>>)
        /\ returned.eth1_data.deposit_root = DefaultRoot
        /\ returned.eth1_data.deposit_count = 0

\* a call with zero deposits has returned a state
C7_Witness ==
    /\ result = Ok
    /\ returned # NoState
    /\ deposits = <<>>
    /\ returned.genesis_validators_root = RootOf("Validator", <<>>)

\* genesis_validators_root is still the default until line 99 has run, and from
\* then on is the root of the registry as the second loop left it
RootSetAfterPass ==
    /\ state # NoState =>
          state.genesis_validators_root =
              IF pc \in {"sync_committee", "return", "done"}
              THEN RootOf("Validator", state.validators)
              ELSE DefaultRoot
    /\ returned # NoState =>
          returned.genesis_validators_root = RootOf("Validator", returned.validators)

\* C8 as stated: genesis_validators_root is the root of the final registry and
\* differs from the root of the registry as it stood before the second loop.
C8_Original ==
    /\ RootSetAfterPass
    /\ returned # NoState =>
          returned.genesis_validators_root # RootOf("Validator", registry_before_pass)

\* C8, amended: genesis_validators_root is computed once, after the deposits and
\* the effective-balance pass, and is the root of the final registry; it differs
\* from the root of the registry before the pass exactly when the pass changed a
\* validator, and equals it otherwise (as with zero deposits).
C8_RegistryRootAfterPass ==
    /\ RootSetAfterPass
    /\ returned # NoState =>
          /\ Len(returned.validators) = Len(registry_before_pass)
          /\ returned.genesis_validators_root # RootOf("Validator", registry_before_pass)
                <=> \E k \in 1..Len(registry_before_pass) :
                        \/ returned.validators[k].effective_balance
                              # registry_before_pass[k].effective_balance
                        \/ returned.validators[k].activation_epoch
                              # registry_before_pass[k].activation_epoch

\* a returned state whose registry the pass changed, with the root of the result
C8_Witness ==
    /\ returned # NoState
    /\ Len(returned.validators) = 2
    /\ returned.validators # registry_before_pass
    /\ returned.genesis_validators_root = RootOf("Validator", returned.validators)
    /\ returned.genesis_validators_root # RootOf("Validator", registry_before_pass)


\* the first of the first n deposits that carries public key pk
FirstDepositOf(pk, n) ==
    CHOOSE j \in 1..n :
        /\ deposits[j].data.public_key = pk
        /\ \A m \in 1..(j - 1) : deposits[m].data.public_key # pk

\* the sum of the amounts the first n deposits carry for public key pk
RECURSIVE AmountFor(_, _)
AmountFor(pk, n) ==
    IF n = 0 THEN 0
    ELSE AmountFor(pk, n - 1)
            + (IF deposits[n].data.public_key = pk THEN deposits[n].data.amount ELSE 0)

\* C9: after any number n of admitted deposits the registry holds exactly one
\* validator per distinct public key of those n deposits, in order of first
\* appearance, with one balance entry each; a validator's balance is the sum of
\* the amounts deposited for its key, and its record is the one its first deposit
\* registered, which later deposits for the key (top-ups) leave as it was.
C9_OneValidatorPerKey ==
    state # NoState =>
        LET n == Admitted
            vs == state.validators
        IN  /\ Len(state.balances) = Len(vs)
            /\ {vs[k].public_key : k \in 1..Len(vs)}
                  = {deposits[j].data.public_key : j \in 1..n}
            /\ \A k, l \in 1..Len(vs) :
                   k < l => FirstDepositOf(vs[k].public_key, n)
                               < FirstDepositOf(vs[l].public_key, n)
            /\ \A k \in 1..Len(vs) :
                   LET first == deposits[FirstDepositOf(vs[k].public_key, n)].data
                   IN  /\ state.balances[k] = AmountFor(vs[k].public_key, n)
                       /\ vs[k].withdrawal_credentials = first.withdrawal_credentials
                       /\ vs[k].exit_epoch = FAR_FUTURE_EPOCH
                       /\ vs[k].withdrawable_epoch = FAR_FUTURE_EPOCH
                       /\ vs[k].slashed = FALSE
                       /\ pc \in {"deposit_root", "process_deposit"} =>
                              /\ vs[k].activation_eligibility_epoch = FAR_FUTURE_EPOCH
                              /\ vs[k].activation_epoch = FAR_FUTURE_EPOCH

\* Scenario D: two deposits from one key, with different amounts and credentials,
\* returned as one validator holding the sum and the first deposit's credentials
C9_Witness ==
    /\ returned # NoState
    /\ Len(deposits) = 2
    /\ deposits[1].data.public_key = deposits[2].data.public_key
    /\ deposits[1].data.withdrawal_credentials # deposits[2].data.withdrawal_credentials
    /\ Len(returned.validators) = 1
    /\ Len(returned.balances) = 1
    /\ returned.balances[1] = deposits[1].data.amount + deposits[2].data.amount
    /\ returned.validators[1].withdrawal_credentials
          = deposits[1].data.withdrawal_credentials

\* C10: the call ends with a state only when every step succeeded: a failing step
\* ends the call at once with an error and no state, no step runs once the call has
\* ended, and a returned state is the finished one (every deposit pushed and
\* admitted, the registry root and both sync committees set).
C10_AllOrNothing ==
    /\ (pc = "done") <=> (result # Pending)
    /\ pc = "done" => ~ENABLED Next
    /\ result # Ok => returned = NoState
    /\ result = Ok =>
          /\ returned # NoState
          /\ returned = state
          /\ Len(leaves) = Len(deposits)
          /\ returned.eth1_data.deposit_count = Len(deposits)
          /\ Len(returned.randao_mixes) = EPOCHS_PER_HISTORICAL_VECTOR
          /\ Len(returned.validators) <= VALIDATOR_REGISTRY_LIMIT
          /\ returned.latest_block_header.body_root # DefaultRoot
          /\ returned.genesis_validators_root # DefaultRoot
          /\ returned.current_sync_committee # DefaultSyncCommittee
          /\ returned.next_sync_committee # DefaultSyncCommittee

\* the leaves outgrew their capacity: the call ended with the Merkleization error
\* and no state, although deposits had been admitted into the state before
C10_Witness ==
    /\ pc = "done"
    /\ result = Err("merkleization")
    /\ Len(leaves) = DEPOSIT_DATA_LIST_BOUND + 1
    /\ returned = NoState
    /\ state = NoState


\* C11: validators and balances have the same length in the state in progress
\* after every deposit admission, throughout the effective-balance pass, whose
\* every balances[i] is therefore in range, and in the returned state.
C11_ValidatorsMatchBalances ==
    /\ state # NoState => Len(state.validators) = Len(state.balances)
    /\ pc = "effective_balance" =>
          /\ i + 1 <= Len(state.validators)
          /\ i + 1 <= Len(state.balances)
    /\ returned # NoState => Len(returned.validators) = Len(returned.balances)
    /\ result = Panicked =>
          \/ context.effective_balance_increment = 0
          \/ U64Add(eth1_timestamp, context.genesis_delay).overflow

\* the pass is at its second validator after a new key, a top-up of it and
\* another new key were admitted
C11_Witness ==
    /\ pc = "effective_balance"
    /\ i = 1
    /\ Len(deposits) = 3
    /\ deposits[1].data.public_key = deposits[2].data.public_key
    /\ deposits[3].data.public_key # deposits[1].data.public_key
    /\ Len(state.validators) = 2
    /\ Len(state.balances) = 2


\* the committee derived from a validator set
CommitteeOf(validators) == [kind |-> "derived", of |-> validators]

\* C13: both sync committees stay at their default until the one derivation,
\* which happens after the deposits, the effective-balance pass and the setting
\* of genesis_validators_root; from then on, and in every returned state,
\* current_sync_committee and next_sync_committee are the same committee, the one
\* derived from the final validator set.
C13_SyncCommitteeDerivedOnce ==
    /\ state # NoState =>
          IF pc \in {"return", "done"}
          THEN /\ state.current_sync_committee = CommitteeOf(state.validators)
               /\ state.next_sync_committee = state.current_sync_committee
               /\ state.genesis_validators_root = RootOf("Validator", state.validators)
          ELSE /\ state.current_sync_committee = DefaultSyncCommittee
               /\ state.next_sync_committee = DefaultSyncCommittee
    /\ returned # NoState =>
          /\ returned.current_sync_committee = returned.next_sync_committee
          /\ returned.current_sync_committee = CommitteeOf(returned.validators)
          /\ \A k \in 1..Len(returned.validators) :
                 returned.validators[k].effective_balance =
                     FlooredAndCapped(returned.balances[k],
                                      context.effective_balance_increment,
                                      context.max_effective_balance)

\* a returned state whose registry the pass changed: both committees are the one
\* derived from the registry after the pass, not from the one before it
C13_Witness ==
    /\ returned # NoState
    /\ Len(returned.validators) = 2
    /\ returned.validators # registry_before_pass
    /\ returned.current_sync_committee = CommitteeOf(returned.validators)
    /\ returned.next_sync_committee = CommitteeOf(returned.validators)
    /\ returned.current_sync_committee # CommitteeOf(registry_before_pass)


\* the registry and balances that admitting deps in order builds
RECURSIVE AdmitAll(_, _, _)
AdmitAll(st, deps, ctx) ==
    IF deps = <<>> THEN st
    ELSE AdmitAll(process_deposit(st, Head(deps), ctx), Tail(deps), ctx)

\* the public keys genesis activates when given the deposits deps
ActivatedKeys(deps, ctx) ==
    LET st == AdmitAll([validators |-> <<>>, balances |-> <<>>], deps, ctx)
    IN  {st.validators[k].public_key :
            k \in {k \in 1..Len(st.validators) :
                      Activate([st.validators[k] EXCEPT !.effective_balance =
                                   EffectiveBalance(st.balances[k], ctx)],
                               ctx).activation_epoch = GENESIS_EPOCH}}

\* every ordering of the deposits deps
Orderings(deps) ==
    {[k \in 1..Len(deps) |-> deps[p[k]]] :
        p \in {q \in [1..Len(deps) -> 1..Len(deps)] :
                  \A a, b \in 1..Len(deps) : q[a] = q[b] => a = b}}

\* C14: no validator is activated while deposits are still being admitted; in a
\* returned state a validator is activated at GENESIS_EPOCH exactly when the sum
\* of all its deposits, floored to the increment, reaches max_effective_balance,
\* however small each deposit is; and the set of activated public keys is the
\* same for every ordering of the deposits.
C14_ActivationOnAccumulatedBalance ==
    /\ (state # NoState /\ pc \in {"deposit_root", "process_deposit"}) =>
          \A k \in 1..Len(state.validators) :
              /\ state.validators[k].activation_epoch = FAR_FUTURE_EPOCH
              /\ state.validators[k].activation_eligibility_epoch = FAR_FUTURE_EPOCH
    /\ returned # NoState =>
          LET n == Len(deposits)
              activated == {returned.validators[k].public_key :
                               k \in {k \in 1..Len(returned.validators) :
                                   returned.validators[k].activation_epoch = GENESIS_EPOCH}}
          IN  /\ \A k \in 1..Len(returned.validators) :
                     LET sum == AmountFor(returned.validators[k].public_key, n)
                         inc == context.effective_balance_increment
                     IN  /\ returned.balances[k] = sum
                         /\ ((sum \div inc) * inc >= context.max_effective_balance)
                               <=> /\ returned.validators[k].activation_epoch = GENESIS_EPOCH
                                   /\ returned.validators[k].activation_eligibility_epoch
                                         = GENESIS_EPOCH
              /\ activated = ActivatedKeys(deposits, context)
              /\ \A o \in Orderings(deposits) : ActivatedKeys(o, context) = activated

\* a returned validator whose two deposits are each below max_effective_balance,
\* with another key's deposit between them, activated on their sum
C14_Witness ==
    /\ returned # NoState
    /\ Len(deposits) = 3
    /\ deposits[1].data.public_key = deposits[3].data.public_key
    /\ deposits[2].data.public_key # deposits[1].data.public_key
    /\ deposits[1].data.amount < context.max_effective_balance
    /\ deposits[3].data.amount < context.max_effective_balance
    /\ deposits[1].data.amount # deposits[3].data.amount
    /\ returned.balances[1] = context.max_effective_balance
    /\ returned.validators[1].activation_epoch = GENESIS_EPOCH
    /\ returned.validators[2].activation_epoch = FAR_FUTURE_EPOCH

\* C1: the three checks of verify_and_notify_new_payload run in the order
\* is_valid_block_hash, is_valid_versioned_hashes, notify_new_payload; a check runs
\* only when every check before it succeeded, and a finished call ran exactly the
\* checks up to the first failing one, whose error is the result (Ok, after all
\* three, when none fails).
CheckOrder == <<"is_valid_block_hash", "is_valid_versioned_hashes", "notify_new_payload">>

Outcome(k) ==
    CASE k = 1 -> is_valid_block_hash(engine, request.execution_payload,
                                      request.parent_beacon_block_root)
      [] k = 2 -> is_valid_versioned_hashes(engine, request)
      [] OTHER -> notify_new_payload(engine, request.execution_payload,
                                     request.parent_beacon_block_root)

FirstFailing ==
    IF \E k \in 1..3 : ~Outcome(k).ok
    THEN CHOOSE k \in 1..3 : ~Outcome(k).ok /\ \A j \in 1..(k - 1) : Outcome(j).ok
    ELSE 0

C1_ChecksInOrderShortCircuit ==
    /\ Len(executed) <= 3
    /\ executed = SubSeq(CheckOrder, 1, Len(executed))
    /\ \A k \in 1..(Len(executed) - 1) : Outcome(k).ok
    /\ epc = "returned" =>
          IF FirstFailing = 0
          THEN executed = CheckOrder /\ eresult = Ok
          ELSE Len(executed) = FirstFailing /\ eresult = Outcome(FirstFailing)

\* a call whose block-hash check failed has returned having run that check alone
C1_Witness ==
    /\ epc = "returned"
    /\ ~is_valid_block_hash(engine, request.execution_payload,
                            request.parent_beacon_block_root).ok
    /\ executed = <<"is_valid_block_hash">>
    /\ eresult = Err("InvalidBlockHash")

\* C2: an engine built with execution_is_valid = false answers every call, the
\* first and every later one, whatever the request, with InvalidBlockHash: the
\* result is never InvalidVersionedHashes, InvalidPayload or Ok.
C2_InvalidEngineYieldsInvalidBlockHash ==
    ~engine.execution_is_valid =>
        /\ eresult \in {Pending, Err("InvalidBlockHash")}
        /\ (epc = "returned" \/ calls > 0) => eresult = Err("InvalidBlockHash")

\* a second call on an invalid engine has returned
C2_Witness ==
    /\ ~engine.execution_is_valid
    /\ calls >= 1
    /\ epc = "returned"
    /\ eresult = Err("InvalidBlockHash")

\* C12: an engine built with execution_is_valid = true answers every call,
\* whatever the request, with success, having run all three checks, each of which
\* succeeded.
C12_ValidEngineSucceeds ==
    engine.execution_is_valid =>
        /\ eresult \in {Pending, Ok}
        /\ (epc = "returned" \/ calls > 0) => eresult = Ok
        /\ (epc = "returned" \/ (epc = "idle" /\ calls > 0)) =>
              /\ executed = CheckOrder
              /\ \A k \in 1..3 : Outcome(k).ok

\* a second call on a valid engine has returned success after all three checks
C12_Witness ==
    /\ engine.execution_is_valid
    /\ calls >= 1
    /\ epc = "returned"
    /\ executed = CheckOrder
    /\ eresult = Ok

====
